---- MODULE Spec2Model ----
(***************************************************************************)
(* WingmanEM (src/wingmanem/app.py): the direct-report record store, its   *)
(* file persistence and the menu navigation loop, as a state machine.      *)
(*                                                                         *)
(* Python values are tagged records of one shape, so that any two values   *)
(* can be compared: an int, a str (a sequence of one-character strings)    *)
(* or None.  A dict is a sequence of (key, val) pairs with distinct keys,  *)
(* in insertion order, as a Python dict is.                                *)
(***************************************************************************)
EXTENDS Integers, Sequences, FiniteSets, TLC

---------------------------------------------------------------------------
(* Bounds of the model *)

\* longest direct_reports list the model grows (add and bulk-generate stop there)
MaxRecords == 2
\* largest id add and bulk-generate assign in the model
MaxId == 3
\* most candidate objects in one adapter response
MaxBatch == 2
\* longest array in the file the load is checked on
MaxFileLen == 3

\* the last day of the calendar
MaxDay == 2

\* longest text given to _wrap_text on its own, and the largest width
MaxTextLen == 5
MaxWidth == 3

\* the longest tip store a generation is run on, on its own
MaxTips == 22

\* most options, and most middle items, of a box rendered on its own, and its
\* largest interior width
MaxBoxItems == 2
MaxBoxWidth == 7

\* the narrowest box whose (bold_prefix, rest) items have a column to wrap in
MinBoxWidth == 5

---------------------------------------------------------------------------
(* Python values *)

IntV(n) == [k |-> "int", n |-> n, s |-> <<>>]
StrV(s) == [k |-> "str", n |-> 0, s |-> s]
NoneV == [k |-> "none", n |-> 0, s |-> <<>>]

\* Python truthiness of a value, as in `x or default`
Truthy(v) ==
    CASE v.k = "int" -> v.n # 0
      [] v.k = "str" -> v.s # <<>>
      [] OTHER -> FALSE

\* x or d
OrElse(v, d) == IF Truthy(v) THEN v ELSE d

---------------------------------------------------------------------------
(* Strings: str.strip, str.lower, int(str) *)

\* the whitespace of str.strip() and str.split() that the inputs hold
IsSpace(c) == c \in {" ", "\n"}

RECURSIVE LStrip(_)
LStrip(s) == IF s # <<>> /\ IsSpace(s[1]) THEN LStrip(Tail(s)) ELSE s

RECURSIVE RStrip(_)
RStrip(s) ==
    IF s # <<>> /\ IsSpace(s[Len(s)]) THEN RStrip(SubSeq(s, 1, Len(s) - 1)) ELSE s

Strip(s) == RStrip(LStrip(s))

LowerChar(c) ==
    CASE c = "A" -> "a"
      [] c = "B" -> "b"
      [] c = "C" -> "c"
      [] c = "U" -> "u"
      [] c = "Y" -> "y"
      [] c = "E" -> "e"
      [] c = "S" -> "s"
      [] c = "T" -> "t"
      [] OTHER -> c

Lower(s) == [i \in DOMAIN s |-> LowerChar(s[i])]

DigitChars == <<"0", "1", "2", "3", "4", "5", "6", "7", "8", "9">>

IsDigit(c) == \E i \in DOMAIN DigitChars : DigitChars[i] = c

DigitVal(c) == (CHOOSE i \in DOMAIN DigitChars : DigitChars[i] = c) - 1

RECURSIVE DecVal(_)
DecVal(s) ==
    IF s = <<>> THEN 0
    ELSE 10 * DecVal(SubSeq(s, 1, Len(s) - 1)) + DigitVal(s[Len(s)])

\* int(s) for a str: ok = FALSE stands for ValueError
IntOfStr(s) ==
    LET t == Strip(s)
        signed == t # <<>> /\ t[1] \in {"-", "+"}
        body == IF signed THEN Tail(t) ELSE t
    IN  IF body # <<>> /\ \A i \in DOMAIN body : IsDigit(body[i])
        THEN [ok |-> TRUE,
              n |-> IF signed /\ t[1] = "-" THEN 0 - DecVal(body) ELSE DecVal(body)]
        ELSE [ok |-> FALSE, n |-> 0]

\* int(v) for a value that is an int or a str (None raises TypeError: ok = FALSE)
IntOf(v) ==
    CASE v.k = "int" -> [ok |-> TRUE, n |-> v.n]
      [] v.k = "str" -> IntOfStr(v.s)
      [] OTHER -> [ok |-> FALSE, n |-> 0]

---------------------------------------------------------------------------
(* Dicts *)

KV(key, val) == [key |-> key, val |-> val]

Keys(d) == {d[i].key : i \in DOMAIN d}

Has(d, key) == key \in Keys(d)

KeyIndex(d, key) == CHOOSE i \in DOMAIN d : d[i].key = key

\* d.get(key): None when the key is absent
Get(d, key) == IF Has(d, key) THEN d[KeyIndex(d, key)].val ELSE NoneV

\* d[key] = val: an existing key keeps its position
Put(d, key, val) ==
    IF Has(d, key)
    THEN [d EXCEPT ![KeyIndex(d, key)] = KV(key, val)]
    ELSE Append(d, KV(key, val))

---------------------------------------------------------------------------
(* Record store: normalisation, identifiers, duplicate keys *)

DIRECT_REPORT_OPTIONAL_KEYS ==
    <<"street_address_1", "street_address_2", "city", "state", "zipcode",
      "country", "birthday", "hire_date", "current_role", "role_start_date",
      "partner_name">>

\* key_map.get(k, k)
key_map(k) ==
    CASE k = "firstName" -> "first_name"
      [] k = "lastName" -> "last_name"
      [] k = "birthdate" -> "birthday"
      [] k = "hireDate" -> "hire_date"
      [] k = "partnerName" -> "partner_name"
      [] OTHER -> k

\* for k, v in r.items(): out[key_map.get(k, k)] = v
RECURSIVE RenameKeys(_, _)
RenameKeys(r, out) ==
    IF r = <<>> THEN out
    ELSE RenameKeys(Tail(r), Put(out, key_map(r[1].key), r[1].val))

\* if key not in out or out[key] is None: out[key] = ""
FillRequired(out, key) ==
    IF ~Has(out, key) \/ Get(out, key) = NoneV THEN Put(out, key, StrV(<<>>)) ELSE out

\* for key in DIRECT_REPORT_OPTIONAL_KEYS: if key not in out: out[key] = None
RECURSIVE FillOptional(_, _)
FillOptional(keys, out) ==
    IF keys = <<>> THEN out
    ELSE FillOptional(Tail(keys),
                      IF Has(out, keys[1]) THEN out ELSE Put(out, keys[1], NoneV))

normalize_direct_report(r) ==
    FillOptional(DIRECT_REPORT_OPTIONAL_KEYS,
                 FillRequired(FillRequired(RenameKeys(r, <<>>), "first_name"),
                              "last_name"))

\* int(r.get("id") or 0), ok = FALSE for TypeError / ValueError
IdAsInt(r) == IntOf(OrElse(Get(r, "id"), IntV(0)))

RECURSIVE MaxIdLoop(_, _)
MaxIdLoop(reports, max_id) ==
    IF reports = <<>> THEN max_id
    ELSE LET c == IdAsInt(reports[1])
         IN  MaxIdLoop(Tail(reports), IF c.ok /\ c.n > max_id THEN c.n ELSE max_id)

\* a next id taken from the length of the list
next_direct_report_id_by_count(reports) == Len(reports) + 1

next_direct_report_id(reports) == MaxIdLoop(reports, 0) + 1

\* (r.get(name) or "").strip().lower(); ok = FALSE stands for the AttributeError
\* a truthy value that is no str raises at .strip()
NamePart(v) ==
    LET x == OrElse(v, StrV(<<>>))
    IN  IF x.k = "str" THEN [ok |-> TRUE, s |-> Lower(Strip(x.s))]
        ELSE [ok |-> FALSE, s |-> <<>>]

direct_report_name_key(r) ==
    LET first == NamePart(Get(r, "first_name"))
        last == NamePart(Get(r, "last_name"))
    IN  [ok |-> first.ok /\ last.ok, key |-> first.s \o <<"|">> \o last.s]

\* bool(key and key in existing_keys)
is_duplicate_direct_report(data, existing_keys) ==
    LET k == direct_report_name_key(data)
    IN  [ok |-> k.ok, dup |-> k.ok /\ k.key # <<>> /\ k.key \in existing_keys]

---------------------------------------------------------------------------
(* The backing file.  kind: "absent" (no such file), "invalid" (no JSON, or *)
(* unreadable: json.load raises JSONDecodeError or OSError), "undecodable"  *)
(* (bytes that are no UTF-8, or brackets nested too deep for the decoder:   *)
(* json.load raises UnicodeDecodeError or RecursionError), "scalar" (JSON,  *)
(* but no array at the top), "array".  An array item is an object (obj,     *)
(* with its dict d) or something else.                                      *)

ObjItem(d) == [obj |-> TRUE, d |-> d]
OtherItem == [obj |-> FALSE, d |-> <<>>]

FileOf(kind, items) == [kind |-> kind, items |-> items]

\* json.dump(direct_reports, f): what the file holds after a successful write
DumpFile(reports) == FileOf("array", [i \in DOMAIN reports |-> ObjItem(reports[i])])

\* [_normalize_direct_report(r) for r in raw if isinstance(r, dict)]
RECURSIVE NormalizeItems(_)
NormalizeItems(items) ==
    IF items = <<>> THEN <<>>
    ELSE IF items[1].obj
         THEN <<normalize_direct_report(items[1].d)>> \o NormalizeItems(Tail(items))
         ELSE NormalizeItems(Tail(items))

\* a repair that forgets next_id += 1
RECURSIVE RepairIds_same_id(_, _)
RepairIds_same_id(reports, next_id) ==
    IF reports = <<>> THEN <<>>
    ELSE LET c == IdAsInt(reports[1])
         IN  IF ~c.ok \/ c.n <= 0
             THEN <<Put(reports[1], "id", IntV(next_id))>>
                      \o RepairIds_same_id(Tail(reports), next_id)
             ELSE <<reports[1]>> \o RepairIds_same_id(Tail(reports), next_id)

\* if int(r.get("id") or 0) <= 0 (or int() raises): r["id"] = next_id; next_id += 1
RECURSIVE RepairIds(_, _)
RepairIds(reports, next_id) ==
    IF reports = <<>> THEN <<>>
    ELSE LET c == IdAsInt(reports[1])
         IN  IF ~c.ok \/ c.n <= 0
             THEN <<Put(reports[1], "id", IntV(next_id))>>
                      \o RepairIds(Tail(reports), next_id + 1)
             ELSE <<reports[1]>> \o RepairIds(Tail(reports), next_id)

\* the list _load_direct_reports leaves in direct_reports
LoadedReports(f) ==
    IF f.kind = "array"
    THEN LET normalized == NormalizeItems(f.items)
         IN  RepairIds(normalized, next_direct_report_id(normalized))
    ELSE <<>>

\* _save_direct_reports: the file after the call.  "ok": written; "open_fail":
\* open() raised OSError, the file is as it was; "write_fail": the write raised
\* OSError after open() had truncated the file.  A run meets one of the three
\* at every write: a sound disk, a read-only one, a full one.
SaveOutcomes == {"ok", "open_fail", "write_fail"}

SavedFile(outcome, reports, old) ==
    CASE outcome = "ok" -> DumpFile(reports)
      [] outcome = "open_fail" -> old
      [] OTHER -> FileOf("invalid", <<>>)

---------------------------------------------------------------------------
(* Management tips: the store, its file, the daily generation.  A date is  *)
(* a day number; a tip entry is [date, text].                              *)

Tip(d, text) == [date |-> d, text |-> text]

\* an item of the tips file: a dict (has_date, has_text: the field is present
\* and truthy; long: the date string has more than its 10 first characters),
\* a plain string (the legacy format), or something else
DictTip(has_date, d, long, text) ==
    [kind |-> "dict", has_date |-> has_date, date |-> d, long |-> long, text |-> text]
StrTip(text) ==
    [kind |-> "str", has_date |-> FALSE, date |-> 0, long |-> FALSE, text |-> text]
OtherTip ==
    [kind |-> "other", has_date |-> FALSE, date |-> 0, long |-> FALSE, text |-> <<>>]

\* json.dump(management_tips, f): what the file holds after a successful write
DumpTips(tips) ==
    FileOf("array", [i \in DOMAIN tips |-> DictTip(TRUE, tips[i].date, FALSE, tips[i].text)])

\* lines 575-579: the entries the load keeps of the items of a list
RECURSIVE LoadTipItems(_, _)
LoadTipItems(items, today_str) ==
    IF items = <<>> THEN <<>>
    ELSE LET item == items[1]
             rest == LoadTipItems(Tail(items), today_str)
         IN  IF item.kind = "dict" /\ item.has_date /\ item.text # <<>>
             THEN <<Tip(item.date, Strip(item.text))>> \o rest
             ELSE IF item.kind = "str" /\ Strip(item.text) # <<>>
             THEN <<Tip(today_str, Strip(item.text))>> \o rest
             ELSE rest

\* lines 566-583: the list _load_management_tips leaves in management_tips
LoadedTips(f, today_str) ==
    IF f.kind = "array" THEN LoadTipItems(f.items, today_str) ELSE <<>>

\* _save_management_tips: the file after the call
SavedTips(outcome, tips, old) ==
    CASE outcome = "ok" -> DumpTips(tips)
      [] outcome = "open_fail" -> old
      [] OTHER -> FileOf("invalid", <<>>)

\* a tip at every start
need_new_tip_always(tips, today_str) == TRUE

\* lines 584-585
need_new_tip(tips, today_str) == tips = <<>> \/ tips[Len(tips)].date # today_str

NoTipYet ==
    <<"N", "o", " ", "t", "i", "p", " ", "y", "e", "t", ".", " ", "G",
      "e", "n", "e", "r", "a", "t", "e", " ", "o", "n", "e", " ", "f",
      "r", "o", "m", " ", "M", "i", "s", "t", "r", "a", "l", " ", "A",
      "I", ".">>

\* the first entry for the last
get_latest_management_tip_first(tips) ==
    IF tips # <<>> THEN tips[1].text ELSE NoTipYet

\* _get_latest_management_tip
get_latest_management_tip(tips) ==
    IF tips # <<>> THEN tips[Len(tips)].text ELSE NoTipYet

\* str.split(): the words between runs of whitespace
RECURSIVE Split(_)
Split(s) ==
    LET t == LStrip(s)
        n == IF \E i \in DOMAIN t : IsSpace(t[i])
             THEN (CHOOSE i \in DOMAIN t :
                       IsSpace(t[i]) /\ \A j \in 1..(i - 1) : ~IsSpace(t[j])) - 1
             ELSE Len(t)
    IN  IF t = <<>> THEN <<>>
        ELSE <<SubSeq(t, 1, n)>> \o Split(SubSeq(t, n + 1, Len(t)))

\* " ".join(words)
RECURSIVE Join(_)
Join(words) ==
    IF words = <<>> THEN <<>>
    ELSE IF Len(words) = 1 THEN words[1]
    ELSE words[1] \o <<" ">> \o Join(Tail(words))

\* _normalize_tip_for_comparison
normalize_tip_for_comparison(tip) == Join(Split(Lower(tip)))

\* a text is compared with the tips the prompt lists only
is_duplicate_of_listed(text, tips) ==
    /\ text # <<>>
    /\ \E i \in DOMAIN tips :
           /\ i > Len(tips) - 20
           /\ normalize_tip_for_comparison(tips[i].text) = normalize_tip_for_comparison(text)

\* _is_duplicate_management_tip
is_duplicate_management_tip(text, tips) ==
    /\ text # <<>>
    /\ \E i \in DOMAIN tips :
           normalize_tip_for_comparison(tips[i].text) = normalize_tip_for_comparison(text)

\* line 642: management_tips[-20:], the tips the prompt tells the adapter to avoid
avoid_window == 20

\* line 642: avoid_all
avoid_all(tips) ==
    LET from == IF Len(tips) > avoid_window THEN Len(tips) - avoid_window + 1 ELSE 1
    IN  [i \in 1..(Len(tips) - from + 1) |-> tips[from + i - 1].text]

\* one attempt more
max_attempts_and_one == 5 + 1

\* line 638
max_attempts == 5

\* what one client.chat.complete of the tip generation does: it raises, or it
\* returns a message whose content is the text (None counts as "")
TipRaise == [kind |-> "raise", text |-> <<>>]
TipText(text) == [kind |-> "text", text |-> text]

\* the entry put in front
AppendTip_in_front(tips, entry) == <<entry>> \o tips

\* line 672: management_tips.append(entry)
AppendTip(tips, entry) == Append(tips, entry)

\* lines 641-679: the loop from `attempt` on; answers[k] is what the k-th
\* request of the invocation meets, append_day what date.today() is at line 672.
\* calls: the requests made; raised: an exception left the loop for line 680
RECURSIVE tip_attempts(_, _, _, _, _)
tip_attempts(tips, answers, attempt, calls, append_day) ==
    IF attempt >= max_attempts
    THEN [ok |-> FALSE, raised |-> FALSE, tips |-> tips, calls |-> calls]
    ELSE LET answer == answers[attempt + 1]
             made == Append(calls, answer)
             text == Strip(answer.text)
         IN  IF answer.kind = "raise"
             THEN [ok |-> FALSE, raised |-> TRUE, tips |-> tips, calls |-> made]
             ELSE IF text = <<>> \/ is_duplicate_management_tip(text, tips)
             THEN tip_attempts(tips, answers, attempt + 1, made, append_day)
             ELSE [ok |-> TRUE, raised |-> FALSE,
                   tips |-> AppendTip(tips, Tip(append_day, text)), calls |-> made]

\* _generate_management_tip_with_ai(silent=True) with mistralai installed
generate_management_tip_with_ai(tips, answers, append_day) ==
    tip_attempts(tips, answers, 0, <<>>, append_day)

---------------------------------------------------------------------------
(* _wrap_text *)

\* text.split("\n")
RECURSIVE SplitLines(_)
SplitLines(s) ==
    IF \E i \in DOMAIN s : s[i] = "\n"
    THEN LET n == CHOOSE i \in DOMAIN s :
                      s[i] = "\n" /\ \A j \in 1..(i - 1) : s[j] # "\n"
         IN  <<SubSeq(s, 1, n - 1)>> \o SplitLines(SubSeq(s, n + 1, Len(s)))
    ELSE <<s>>

\* a long word is kept whole
FirstOfLine_whole(w, width) == w

\* line 100: [w] if len(w) <= width else [w[:width]]
FirstOfLine(w, width) == IF Len(w) <= width THEN w ELSE SubSeq(w, 1, width)

\* lines 93-103: the loop over the words of one paragraph; current: the words
\* of the line being filled, lines: the lines made so far
RECURSIVE wrap_words(_, _, _, _, _)
wrap_words(words, current, current_len, lines, width) ==
    IF words = <<>>
    THEN IF current # <<>> THEN Append(lines, Join(current)) ELSE lines
    ELSE LET w == words[1]
         IN  IF current_len + Len(current) + Len(w) <= width
             THEN wrap_words(Tail(words), Append(current, w), current_len + Len(w),
                             lines, width)
             ELSE LET first == FirstOfLine(w, width)
                  IN  wrap_words(Tail(words), <<first>>, Len(first),
                                 IF current # <<>> THEN Append(lines, Join(current))
                                 ELSE lines,
                                 width)

\* lines 89-103: the loop over the paragraphs
RECURSIVE wrap_paragraphs(_, _, _)
wrap_paragraphs(paragraphs, lines, width) ==
    IF paragraphs = <<>> THEN lines
    ELSE wrap_paragraphs(Tail(paragraphs),
                         wrap_words(Split(paragraphs[1]), <<>>, 0, lines, width),
                         width)

\* _wrap_text
wrap_text(text, width) ==
    IF Strip(text) = <<>> THEN << <<>> >>
    ELSE wrap_paragraphs(SplitLines(text), <<>>, width)

---------------------------------------------------------------------------
(* _menu_box.  A rendered line is a sequence of characters and style codes; *)
(* a style code is one element.                                             *)

StyleCodes == {"BOLD", "RESET", "BLACK", "RED", "DISABLED"}

\* s[a:b] for 0 <= a, 0 <= b
Slice(s, a, b) ==
    LET hi == IF b < Len(s) THEN b ELSE Len(s)
    IN  IF a >= hi THEN <<>> ELSE SubSeq(s, a + 1, hi)

Spaces(n) == [i \in 1..n |-> " "]

\* s.ljust(n)
Ljust(s, n) == IF Len(s) >= n THEN s ELSE s \o Spaces(n - Len(s))

\* an option: a label, (label, enabled) or (label, enabled, red)
Opt(form, text, enabled, red) ==
    [form |-> form, text |-> text, enabled |-> enabled, red |-> red]

\* lines 127-140: the line of one option
option_line(opt, width) ==
    LET enabled == IF opt.form \in {"pair", "triple"} THEN opt.enabled ELSE TRUE
        red == IF opt.form = "triple" THEN opt.red ELSE FALSE
        color == IF ~enabled THEN "DISABLED" ELSE IF red THEN "RED" ELSE "BLACK"
    IN  <<"|", color>> \o Ljust(Slice(opt.text, 0, width), width) \o <<"RESET", "|">>

\* a middle item: a string, or (bold_prefix, rest)
Mid(form, bold_part, rest) == [form |-> form, bold_part |-> bold_part, rest |-> rest]

\* the padding of the first line computed for a narrower box
first_pair_line_narrow(wrapped_line, bold_len, width) ==
    LET bold_text == Slice(wrapped_line, 0, bold_len)
        rest_text == Slice(wrapped_line, bold_len, width - 4)
        visible_len == 2 + Len(bold_text) + Len(rest_text)
        padding_needed == width - 4 - visible_len
    IN  <<"|", " ", " ", "BOLD">> \o bold_text \o <<"RESET">> \o rest_text
            \o Spaces(padding_needed) \o <<" ", " ", "|">>

\* lines 151-161: the first line of a (bold_prefix, rest) item
first_pair_line(wrapped_line, bold_len, width) ==
    LET bold_text == Slice(wrapped_line, 0, bold_len)
        rest_text == Slice(wrapped_line, bold_len, width - 4)
        visible_len == 2 + Len(bold_text) + Len(rest_text)
        padding_needed == width - 2 - visible_len
    IN  <<"|", " ", " ", "BOLD">> \o bold_text \o <<"RESET">> \o rest_text
            \o Spaces(padding_needed) \o <<" ", " ", "|">>

\* lines 145-170: the lines of one middle item
middle_item_lines(m, width) ==
    IF m.form = "pair"
    THEN LET wrapped == wrap_text(m.bold_part \o m.rest, width - 4)
         IN  [i \in DOMAIN wrapped |->
                 IF i = 1
                 THEN first_pair_line(wrapped[i], Len(m.bold_part), width)
                 ELSE <<"|", " ", " ">>
                          \o Ljust(Slice(wrapped[i], 0, width - 4), width - 4)
                          \o <<" ", " ", "|">>]
    ELSE LET wrapped == wrap_text(m.rest, width)
         IN  [i \in DOMAIN wrapped |->
                 <<"|", "BOLD">> \o Ljust(Slice(wrapped[i], 0, width), width)
                     \o <<"RESET", "|">>]

RECURSIVE middle_lines(_, _)
middle_lines(middle, width) ==
    IF middle = <<>> THEN <<>>
    ELSE middle_item_lines(middle[1], width) \o middle_lines(Tail(middle), width)

\* _menu_box: the lines of the string it returns.  "|" stands for the vertical
\* border; the horizontal borders are a corner, width times "=", a corner
menu_box(title, options, width, middle, middle_position) ==
    LET border == <<"+">> \o [i \in 1..width |-> "="] \o <<"+">>
        title_line == <<"|", "BOLD">> \o Ljust(Slice(title, 0, width), width)
                          \o <<"RESET", "|">>
        option_lines == [i \in DOMAIN options |-> option_line(options[i], width)]
        middle_part == middle_lines(middle, width)
    IN  IF middle_part # <<>> /\ middle_position = "bottom"
        THEN <<border, title_line, border>> \o option_lines \o <<border>>
                 \o middle_part \o <<border>>
        ELSE <<border, title_line, border>> \o middle_part \o option_lines
                 \o <<border>>

---------------------------------------------------------------------------
(* State *)

VARIABLES
    direct_reports,     \* the global list of normalized report dicts
    file,               \* content of direct_reports.json
    disk,               \* what a write of the file meets in this run (SaveOutcomes)
    MISTRAL_AVAILABLE,  \* whether the mistralai import succeeded
    pc,                 \* "start", "prompt" (a menu is about to be drawn and read),
                        \* "pause" (inside _pause), "exited"
    menu,               \* the menu whose loop is running
    choice,             \* _run_submenu's choice in the running iteration (0 before)
    raw,                \* the line the running action read at its own prompt
    input_ev,           \* what the last input() yielded: "line", "eof", "int"
    out,                \* what the last step printed (stdout and stderr)
    exit_status,        \* the process exit status once pc = "exited", else -1
    probe,              \* arguments and result of a function checked on its own
    menu_line,          \* the lines the last step read at a menu prompt: <<>>
                        \* or one line
    returned,           \* what the action (at start: the tip generation) the last
                        \* step ran returned: "None", "True", "False"; "-" when
                        \* the step ran none to its end
    adapter_calls,      \* what each client.chat.complete of the last step met
    today,              \* date.today(), a day number
    management_tips,    \* the global list of tip entries
    tips_file,          \* content of management_tips.json
    generated,          \* history: for each day, how many entries the generation
                        \* has appended with that date, over all runs
    fresh_tip           \* history: the entry the generation appended in this
                        \* run of the program, in a sequence (<<>> before)

vars == <<direct_reports, file, disk, MISTRAL_AVAILABLE, pc, menu, choice,
          raw, input_ev, out, exit_status, probe, menu_line, returned,
          adapter_calls, today, management_tips, tips_file, generated,
          fresh_tip>>

\* the tip store and the clock
tips_vars == <<today, management_tips, tips_file, generated, fresh_tip>>

\* a printed line: its text m, and the number and the two values formatted into it
Msg(m, n, a, b) == [m |-> m, n |-> n, a |-> a, b |-> b]
M(m) == Msg(m, 0, NoneV, NoneV)

Printed(m) == \E i \in DOMAIN out : out[i].m = m

---------------------------------------------------------------------------
(* Inputs *)

\* what a pending input() yields instead of a line: EOFError or KeyboardInterrupt
Aborts == {"eof", "int"}
Events == {"line"} \cup Aborts

DigitStr(n) == <<DigitChars[n + 1]>>

\* lines typed at a menu prompt
MenuInputs ==
    {DigitStr(n) : n \in 0..7} \cup {<<>>, <<"x">>, <<" ", "2">>, <<"1", "0">>}

Unknown == <<"U", "n", "k", "n", "o", "w", "n">>

\* lines typed at the name prompts of "Add Direct Report"
FirstNameInputs == {<<>>, <<"A">>}
LastNameInputs == {<<" ", "b">>}
\* lines typed at an optional prompt
OptionalInputs == {<<>>, <<"c", " ">>}
\* what an operator types at the prompts of one "Add Direct Report": someone
\* who leaves the first name blank also skips the optional prompts
AddInputs ==
    {[first |-> <<>>, last |-> l, city |-> <<>>] : l \in LastNameInputs}
        \cup {[first |-> f, last |-> l, city |-> c] :
                 f \in FirstNameInputs \ {<<>>}, l \in LastNameInputs,
                 c \in OptionalInputs \ {<<>>}}

\* lines typed at the delete prompt
DeleteInputs == {DigitStr(n) : n \in 0..(MaxId + 1)} \cup {<<>>, <<"x">>, <<" ">>}

\* lines typed at the purge confirmation
ConfirmInputs == {<<"y", "e", "s">>, <<" ", "Y", "E", "S">>, <<"y">>, <<>>}

\* lines typed at "How many direct reports to generate?"
NumInputs == {<<>>, <<"1">>, <<"0">>, <<"x">>}

---------------------------------------------------------------------------
(* main: lines 966-984 *)

\* the handlers of main's try: KeyboardInterrupt -> sys.exit(0); any other
\* Exception (EOFError is one) -> sys.exit(1)
main_except(ev) == IF ev = "int" THEN 0 ELSE 1

KeepStore == UNCHANGED <<direct_reports, file, disk>>

\* the step read a line (at the menu prompt, and in the action it ran)
ReadCalls(c, r, calls) ==
    /\ choice' = c
    /\ raw' = r
    /\ input_ev' = "line"
    /\ adapter_calls' = calls
    /\ UNCHANGED <<MISTRAL_AVAILABLE, probe, tips_vars>>

Read(c, r) == ReadCalls(c, r, <<>>)

\* no action of a submenu ran to its end in the step
NoAction == returned' = "-"

\* an input() inside main's try raised ev: the frames of the menus are
\* unwound (their locals are gone), main's handler ends the process
Abort(ev) ==
    /\ pc' = "exited"
    /\ exit_status' = main_except(ev)
    /\ input_ev' = ev
    /\ out' = <<M(IF ev = "int" THEN "Exiting." ELSE "Unexpected error")>>
    /\ choice' = 0
    /\ raw' = <<>>
    /\ KeepStore
    /\ NoAction
    /\ adapter_calls' = <<>>
    /\ UNCHANGED <<MISTRAL_AVAILABLE, menu, probe, tips_vars>>

\* _save_direct_reports() of the list `reports`; the caller printed `before`
\* ahead of the call and prints `after` when it returns
Save(reports, before, after) ==
    /\ file' = SavedFile(disk, reports, file)
    /\ out' = IF disk = "ok" THEN before \o after
              ELSE before \o <<M("Could not save direct reports")>> \o after
    /\ UNCHANGED disk

\* what the requests of one tip generation may meet: an error, a blank text,
\* the text "T " and the text "u"
TipOutcomes == {TipRaise, TipText(<<" ">>), TipText(<<"T", " ">>), TipText(<<"u">>)}

\* one outcome for each request, one more than max_attempts of them: the
\* first k requests meet a blank or a repeated text, the others one outcome
TipAnswers ==
    {[i \in 1..(max_attempts + 1) |-> IF i <= k THEN a ELSE b] :
        k \in 0..(max_attempts + 1), a \in {TipText(<<" ">>), TipText(<<"T", " ">>)},
        b \in TipOutcomes}

\* what the writes of a missing file at start print when they fail
StartupSaves ==
    (IF file.kind = "absent" /\ disk # "ok"
     THEN <<M("Could not save direct reports")>> ELSE <<>>)
        \o (IF tips_file.kind = "absent" /\ disk # "ok"
            THEN <<M("Could not save management tips")>> ELSE <<>>)

\* _load_management_tips (lines 565-587) when it generates: the store, the
\* file, the clock and the output it leaves
LoadTipsGenerating(loaded, created) ==
    \E answers \in TipAnswers, append_day \in {today, today + 1} :
        LET run == generate_management_tip_with_ai(loaded, answers, append_day)
        IN  /\ append_day <= MaxDay
            /\ run.ok => generated[append_day] < MaxDay
            /\ today' = append_day
            /\ management_tips' = run.tips
            /\ adapter_calls' = run.calls
            /\ returned' = IF run.ok THEN "True" ELSE "False"
            /\ generated' = IF run.ok
                            THEN [generated EXCEPT ![append_day] = @ + 1]
                            ELSE generated
            /\ fresh_tip' = IF run.ok
                            THEN <<Tip(append_day, Strip(answers[Len(run.calls)].text))>>
                            ELSE <<>>
            /\ tips_file' = IF run.ok THEN SavedTips(disk, run.tips, created) ELSE created
            /\ out' = <<M("Welcome to WingmanEM.")>> \o StartupSaves
                          \o (IF run.raised THEN <<M("Error calling Mistral AI")>>
                              ELSE <<>>)
                          \o (IF run.ok /\ disk # "ok"
                              THEN <<M("Could not save management tips")>> ELSE <<>>)

\* main up to its loop: _load_direct_reports, _load_management_tips, then the
\* main menu
Startup ==
    /\ pc = "start"
    /\ file.kind # "undecodable"
    /\ direct_reports' = LoadedReports(file)
    /\ file' = IF file.kind = "absent" THEN SavedFile(disk, <<>>, file) ELSE file
    /\ LET today_str == today
           loaded == LoadedTips(tips_file, today_str)
           created == IF tips_file.kind = "absent"
                      THEN SavedTips(disk, <<>>, tips_file) ELSE tips_file
       IN  IF need_new_tip(loaded, today_str) /\ MISTRAL_AVAILABLE
           THEN LoadTipsGenerating(loaded, created)
           ELSE /\ management_tips' = loaded
                /\ tips_file' = created
                /\ adapter_calls' = <<>>
                /\ out' = <<M("Welcome to WingmanEM.")>> \o StartupSaves
                /\ NoAction
                /\ fresh_tip' = <<>>
                /\ UNCHANGED <<today, generated>>
    /\ pc' = "prompt"
    /\ menu' = "main"
    /\ menu_line' = <<>>
    /\ UNCHANGED <<disk, MISTRAL_AVAILABLE, choice, raw, input_ev, exit_status, probe>>

\* main when json.load raises what line 271 does not catch (UnicodeDecodeError,
\* RecursionError): the exception leaves _load_direct_reports and main, which
\* calls it outside its try; the interpreter prints the traceback and ends
\* with status 1
StartupLoadRaises ==
    /\ pc = "start"
    /\ file.kind = "undecodable"
    /\ pc' = "exited"
    /\ exit_status' = 1
    /\ out' = <<M("Welcome to WingmanEM."), M("Traceback")>>
    /\ menu_line' = <<>>
    /\ NoAction
    /\ KeepStore
    /\ UNCHANGED <<MISTRAL_AVAILABLE, menu, choice, raw, input_ev, probe,
                   adapter_calls, tips_vars>>

---------------------------------------------------------------------------
(* Navigation: _prompt_choice, _run_submenu, _pause, run_main_menu *)

\* no upper limit
prompt_choice_unlimited(line, max_opt) ==
    LET c == IntOfStr(Strip(line))
    IN  IF c.ok /\ 1 <= c.n THEN c.n ELSE 0

\* _prompt_choice: the 1-based option, or 0 for anything else
prompt_choice(line, max_opt) ==
    LET c == IntOfStr(Strip(line))
    IN  IF c.ok /\ 1 <= c.n /\ c.n <= max_opt THEN c.n ELSE 0

Submenus == {"project", "people", "direct_reports", "developer"}

\* the max_option each run_*_menu passes to _run_submenu
max_option(m) ==
    CASE m = "project" -> 4
      [] m = "people" -> 7
      [] m = "direct_reports" -> 6
      [] OTHER -> 1

\* the keys of the actions dict each run_*_menu passes to _run_submenu
actions(m) ==
    CASE m = "project" -> {1, 2, 3}
      [] m = "people" -> {1, 2, 3, 4, 5, 6}
      [] m = "direct_reports" ->
            {1, 2, 3, 5} \cup (IF MISTRAL_AVAILABLE THEN {4} ELSE {})
      [] OTHER -> {}

\* the menu whose loop called run_*_menu for m
Caller(m) == IF m = "direct_reports" THEN "people" ELSE "main"

\* the loop without its return
run_submenu_no_return(c, max_opt, acts) ==
    IF c = 0 THEN "invalid"
    ELSE IF c \in acts THEN "action"
    ELSE "redraw"

\* the branch one iteration of _run_submenu takes on a choice
run_submenu(c, max_opt, acts) ==
    IF c = 0 THEN "invalid"
    ELSE IF c = max_opt THEN "return"
    ELSE IF c \in acts THEN "action"
    ELSE "redraw"

\* a pause after every action
after_action_always_pause(result) == "pause"

\* if result is not True: _pause()
after_action(result) == IF result = "True" THEN "prompt" ELSE "pause"

\* the action returned result to the loop of _run_submenu
Returns(result) ==
    /\ returned' = result
    /\ pc' = after_action(result)

\* some line typed at menu m's prompt makes _run_submenu take branch b on choice c
Takes(m, b, c) ==
    /\ pc = "prompt"
    /\ menu = m
    /\ \E line \in MenuInputs :
           /\ prompt_choice(line, max_option(m)) = c
           /\ run_submenu(c, max_option(m), actions(m)) = b
           /\ menu_line' = <<line>>

Selects(m, c) == Takes(m, "action", c)

\* the input() of a menu prompt raises
PromptAbort ==
    /\ pc = "prompt"
    /\ menu_line' = <<>>
    /\ \E ev \in Aborts : Abort(ev)

\* choice == 0: print("Invalid option."); _pause(); continue
SubmenuInvalid ==
    /\ \E m \in Submenus : Takes(m, "invalid", 0)
    /\ out' = <<M("Invalid option.")>>
    /\ pc' = "pause"
    /\ NoAction
    /\ Read(0, <<>>)
    /\ KeepStore
    /\ UNCHANGED <<menu, exit_status>>

\* choice == max_option: return; every run_*_menu then returns to its caller's
\* loop, which draws its menu again without a pause: run_direct_reports_menu
\* returns True to the loop of the people menu, the others return to main's loop
SubmenuReturn ==
    /\ \E m \in Submenus : Takes(m, "return", max_option(m))
    /\ menu' = Caller(menu)
    /\ pc' = "prompt"
    /\ out' = <<>>
    /\ returned' = IF menu = "direct_reports" THEN "True" ELSE "-"
    /\ Read(0, <<>>)
    /\ KeepStore
    /\ UNCHANGED exit_status

\* a choice in range that is no key of actions: the loop goes round
SubmenuRedraw ==
    \E c \in 1..9 :
        /\ \E m \in Submenus : Takes(m, "redraw", c)
        /\ pc' = "prompt"
        /\ out' = <<>>
        /\ NoAction
        /\ Read(c, <<>>)
        /\ KeepStore
        /\ UNCHANGED <<menu, exit_status>>

\* _pause: input("Press Enter to continue..."); the next iteration starts
Pause ==
    /\ pc = "pause"
    /\ menu_line' = <<>>
    /\ \E ev \in Events :
           IF ev = "line"
           THEN /\ pc' = "prompt"
                /\ out' = <<>>
                /\ NoAction
                /\ Read(0, <<>>)
                /\ KeepStore
                /\ UNCHANGED <<menu, exit_status>>
           ELSE Abort(ev)

\* run_main_menu and the loop of main around it
MainMenu ==
    /\ pc = "prompt"
    /\ menu = "main"
    /\ \E line \in MenuInputs :
           LET c == prompt_choice(line, 9)
           IN  /\ pc' = CASE c \in {0, 4, 5, 6, 7, 8} -> "pause"
                          [] c = 3 -> "exited"
                          [] OTHER -> "prompt"
               /\ menu' = CASE c = 9 -> "developer"
                            [] c = 1 -> "project"
                            [] c = 2 -> "people"
                            [] OTHER -> "main"
               /\ out' = CASE c \in {0, 4, 5, 6, 7, 8} ->
                                <<M("Invalid option. Please enter 1, 2, or 3.")>>
                           [] c = 3 -> <<M("Goodbye.")>>
                           [] OTHER -> <<>>
               /\ exit_status' = IF c = 3 THEN 0 ELSE exit_status
               /\ menu_line' = <<line>>
               /\ NoAction
               /\ Read(IF c \in {1, 2, 9} THEN 0 ELSE c, <<>>)
    /\ KeepStore

\* the lambda placeholders of the project and people menus
Placeholder ==
    \E c \in {1, 2, 3} :
        /\ \E m \in {"project", "people"} : Selects(m, c)
        /\ out' = <<M("[Placeholder] not yet implemented.")>>
        /\ Returns("None")
        /\ Read(c, <<>>)
        /\ KeepStore
        /\ UNCHANGED <<menu, exit_status>>

\* _view_milestone_reminders: prints, then reads lines until an empty one
ViewMilestoneReminders ==
    /\ Selects("people", 4)
    /\ \E ev \in Events :
           IF ev = "line"
           THEN /\ out' = <<M("--- Milestone Reminders ---")>>
                /\ Returns("True")
                /\ Read(4, <<>>)
                /\ KeepStore
                /\ UNCHANGED <<menu, exit_status>>
           ELSE Abort(ev)

\* actions[5] of the people menu: run_direct_reports_menu starts its loop
EnterDirectReportsMenu ==
    /\ Selects("people", 5)
    /\ menu' = "direct_reports"
    /\ pc' = "prompt"
    /\ out' = <<>>
    /\ NoAction
    /\ Read(0, <<>>)
    /\ KeepStore
    /\ UNCHANGED exit_status

\* _print_management_tips_by_date
PrintManagementTipsByDate ==
    /\ Selects("people", 6)
    /\ out' = <<M("--- Management Tips by Date ---")>>
                  \o (IF management_tips = <<>> THEN <<M("No tips yet.")>>
                      ELSE [i \in DOMAIN management_tips |->
                               Msg("tip", management_tips[i].date,
                                   StrV(management_tips[i].text), NoneV)])
    /\ Returns("None")
    /\ Read(6, <<>>)
    /\ KeepStore
    /\ UNCHANGED <<menu, exit_status>>

---------------------------------------------------------------------------
(* Direct reports: add, list, delete, purge *)

\* input(...).strip() or None
StripOrNone(line) == IF Strip(line) = <<>> THEN NoneV ELSE StrV(Strip(line))

\* input(...).strip() or "Unknown"
StripOrUnknown(line) == IF Strip(line) = <<>> THEN StrV(Unknown) ELSE StrV(Strip(line))

\* the report _add_direct_report builds from the typed lines (the city prompt
\* stands for the optional prompts; the others are answered with Enter)
NewReport(reports, first_line, last_line, city_line) ==
    LET report == normalize_direct_report(
                      <<KV("id", IntV(next_direct_report_id(reports))),
                        KV("first_name", StripOrUnknown(first_line)),
                        KV("last_name", StripOrUnknown(last_line))>>)
    IN  Put(report, "city", StripOrNone(city_line))

\* _add_direct_report
AddDirectReport ==
    /\ Selects("direct_reports", 1)
    /\ Len(direct_reports) < MaxRecords
    /\ next_direct_report_id(direct_reports) <= MaxId
    /\ \E ev \in Events :
           IF ev = "line"
           THEN \E lines \in AddInputs :
                    LET report == NewReport(direct_reports, lines.first, lines.last,
                                            lines.city)
                        reports == Append(direct_reports, report)
                    IN  /\ direct_reports' = reports
                        /\ Save(reports, <<>>,
                                <<Msg("Added", 0, Get(report, "first_name"),
                                      Get(report, "last_name"))>>)
                        /\ Returns("None")
                        /\ Read(1, <<>>)
                        /\ UNCHANGED <<menu, exit_status>>
           ELSE Abort(ev)

\* what _list_direct_reports prints
Listing(reports) ==
    IF reports = <<>> THEN <<M("No direct reports yet. Add one from the menu.")>>
    ELSE <<Msg("Direct Reports", Len(reports), NoneV, NoneV)>>

\* _list_direct_reports
ListDirectReports ==
    /\ Selects("direct_reports", 2)
    /\ out' = Listing(direct_reports)
    /\ Returns("None")
    /\ Read(2, <<>>)
    /\ KeepStore
    /\ UNCHANGED <<menu, exit_status>>

\* next((i for i, r in enumerate(direct_reports) if r.get("id") == target_id), None):
\* 0 stands for None
FindIndex(reports, target_id) ==
    LET hits == {i \in DOMAIN reports : Get(reports[i], "id") = IntV(target_id)}
    IN  IF hits = {} THEN 0 ELSE CHOOSE i \in hits : \A j \in hits : i <= j

\* a pop that takes the following element along
Pop_two(reports, index) ==
    SubSeq(reports, 1, index - 1) \o SubSeq(reports, index + 2, Len(reports))

\* direct_reports.pop(index)
Pop(reports, index) ==
    SubSeq(reports, 1, index - 1) \o SubSeq(reports, index + 1, Len(reports))

\* _delete_direct_report
DeleteDirectReport ==
    /\ Selects("direct_reports", 3)
    /\ IF direct_reports = <<>>
       THEN /\ out' = Listing(direct_reports)
            /\ Returns("True")
            /\ Read(3, <<>>)
            /\ KeepStore
            /\ UNCHANGED <<menu, exit_status>>
       ELSE \E ev \in Events :
                IF ev = "line"
                THEN \E typed \in DeleteInputs :
                         LET line == Strip(typed)
                             target == IntOfStr(line)
                             index == FindIndex(direct_reports, target.n)
                         IN  /\ Read(3, line)
                             /\ UNCHANGED <<menu, exit_status>>
                             /\ IF line = <<>>
                                THEN /\ out' = Listing(direct_reports)
                                     /\ Returns("True")
                                     /\ KeepStore
                                ELSE IF ~target.ok
                                THEN /\ out' = Listing(direct_reports)
                                                  \o <<M("Invalid input. Enter the ID number")>>
                                     /\ Returns("None")
                                     /\ KeepStore
                                ELSE IF index # 0
                                THEN /\ direct_reports' = Pop(direct_reports, index)
                                     /\ Save(Pop(direct_reports, index),
                                             Listing(direct_reports),
                                             <<Msg("Removed", 0,
                                                   Get(direct_reports[index], "first_name"),
                                                   Get(direct_reports[index], "last_name"))>>)
                                     /\ Returns("None")
                                ELSE /\ out' = Listing(direct_reports)
                                                  \o <<Msg("No direct report with ID",
                                                           target.n, NoneV, NoneV)>>
                                     /\ Returns("None")
                                     /\ KeepStore
                ELSE Abort(ev)

\* _purge_direct_reports
\* the confirmation trimmed, its case kept
confirmation_case_kept(typed) == Strip(typed)

\* line 543: input(...).strip().lower()
confirmation(typed) == Lower(Strip(typed))

\* _purge_direct_reports; raw' is the line typed at the confirmation
PurgeDirectReports ==
    /\ Selects("direct_reports", 5)
    /\ IF direct_reports = <<>>
       THEN /\ out' = Listing(direct_reports) \o <<M("No direct reports to purge.")>>
            /\ Returns("True")
            /\ Read(5, <<>>)
            /\ KeepStore
            /\ UNCHANGED <<menu, exit_status>>
       ELSE \E ev \in Events :
                IF ev = "line"
                THEN \E typed \in ConfirmInputs :
                         LET confirm == confirmation(typed)
                         IN  /\ Read(5, typed)
                             /\ Returns("True")
                             /\ UNCHANGED <<menu, exit_status>>
                             /\ IF confirm = <<"y", "e", "s">>
                                THEN /\ direct_reports' = <<>>
                                     /\ Save(<<>>, Listing(direct_reports),
                                             <<Msg("Purged", Len(direct_reports),
                                                   NoneV, NoneV)>>)
                                ELSE /\ out' = Listing(direct_reports)
                                                  \o <<M("Purge cancelled.")>>
                                     /\ KeepStore
                ELSE Abort(ev)

---------------------------------------------------------------------------
(* Direct reports: bulk generation with the AI adapter *)

\* candidate objects an adapter response may hold
PlainCandidate == <<KV("first_name", StrV(<<"a">>)), KV("last_name", StrV(<<"b">>))>>

Candidates ==
    {PlainCandidate,
     <<KV("firstName", StrV(<<"A">>)), KV("lastName", StrV(<<"b">>))>>,
     <<KV("id", IntV(1)), KV("first_name", StrV(<<"c">>)), KV("last_name", StrV(<<"b">>))>>,
     <<KV("id", NoneV), KV("first_name", StrV(<<"e">>)), KV("last_name", StrV(<<"b">>))>>,
     <<KV("id", StrV(<<"x">>)), KV("first_name", StrV(<<"y">>)), KV("last_name", StrV(<<"b">>))>>,
     <<KV("first_name", IntV(5)), KV("last_name", StrV(<<"b">>))>>,
     <<KV("firstName", IntV(5)), KV("last_name", StrV(<<"b">>))>>,
     <<>>}

SeqsUpTo(S, n) == UNION {[1..k -> S] : k \in 0..n}

\* what client.chat.complete does: it raises (err: what str(e) names), or it
\* returns text that json.loads rejects ("garbage"), or JSON: a scalar, a list,
\* or a dict with one key whose value is a list
Raise(err) == [kind |-> "raise", key |-> err, items |-> <<>>]
Text(kind, key, items) == [kind |-> kind, key |-> key, items |-> items]

Responses ==
    {Raise(e) : e \in {"unauthorized", "network", "other"}}
        \cup {Text("garbage", "", <<>>), Text("scalar", "", <<>>)}
        \cup {Text("dict", "reports", [i \in DOMAIN cs |-> ObjItem(cs[i])]) :
                 cs \in SeqsUpTo(Candidates, MaxBatch)}
        \cup {Text("dict", key, items) :
                 key \in {"direct_reports", "data"},
                 items \in {<<ObjItem(PlainCandidate)>>,
                            <<OtherItem, ObjItem(PlainCandidate)>>}}
        \cup {Text("list", "", <<OtherItem, ObjItem(PlainCandidate)>>)}

\* what the second request meets, the one lines 458-462 make without
\* response_format when the first raised TypeError
RetryResponses ==
    {Raise("TypeError"), Raise("network"), Text("garbage", "", <<>>),
     Text("dict", "reports", <<ObjItem(PlainCandidate)>>)}

\* lines 452-462: what the requests of one invocation meet, in order
AdapterCalls ==
    {<<r>> : r \in Responses}
        \cup {<<Raise("TypeError"), r>> : r \in RetryResponses}

\* one invocation: the line typed at the count prompt and what the requests
\* meet.  The count 1 goes with every course of requests, the other lines
\* with an error and with one plain candidate
GenerateInputs ==
    {[typed |-> <<"1">>, calls |-> c] : c \in AdapterCalls}
        \cup {[typed |-> n, calls |-> c] :
                 n \in NumInputs \ {<<"1">>},
                 c \in {<<Raise("other")>>,
                        <<Text("dict", "reports", <<ObjItem(PlainCandidate)>>)>>}}

\* [x for x in v if isinstance(x, dict)]
RECURSIVE DictsOf(_)
DictsOf(items) ==
    IF items = <<>> THEN <<>>
    ELSE IF items[1].obj THEN <<items[1].d>> \o DictsOf(Tail(items))
    ELSE DictsOf(Tail(items))

\* lines 480-495: the objects taken from the parsed response
ParseObjects(resp) ==
    CASE resp.kind = "list" -> DictsOf(resp.items)
      [] resp.kind = "dict" ->
            IF resp.key \in {"reports", "direct_reports"} /\ DictsOf(resp.items) # <<>>
            THEN DictsOf(resp.items)
            ELSE IF resp.items # <<>> /\ resp.items[1].obj THEN DictsOf(resp.items)
            ELSE <<>>
      [] OTHER -> <<>>

\* {"id": _next_direct_report_id(), **data}
RECURSIVE Update(_, _)
Update(d, items) ==
    IF items = <<>> THEN d
    ELSE Update(Put(d, items[1].key, items[1].val), Tail(items))

WithId(id, data) == Update(<<KV("id", id)>>, data)

\* {_direct_report_name_key(r) for r in direct_reports}; ok = FALSE when a key raises
existing_names(reports) ==
    [ok |-> \A i \in DOMAIN reports : direct_report_name_key(reports[i]).ok,
     keys |-> {direct_report_name_key(reports[i]).key : i \in DOMAIN reports}]

\* (data.get(name) or "").strip(), for the "Skipped duplicate" line
StripName(v) == IF Truthy(v) /\ v.k = "str" THEN StrV(Strip(v.s)) ELSE StrV(<<>>)

\* the loop of lines 500-516 over the objects still to come.  raised: an
\* exception left the loop for the handler of line 526
RECURSIVE generate_loop(_, _, _, _, _)
generate_loop(objects, reports, keys_already_used, added_count, printed) ==
    IF objects = <<>>
    THEN [reports |-> reports, added_count |-> added_count, printed |-> printed,
          raised |-> FALSE]
    ELSE LET data == objects[1]
             dup == is_duplicate_direct_report(data, keys_already_used)
             report == normalize_direct_report(
                           WithId(IntV(next_direct_report_id(reports)), data))
             key == direct_report_name_key(report)
         IN  IF ~dup.ok
             THEN [reports |-> reports, added_count |-> added_count,
                   printed |-> printed, raised |-> TRUE]
             ELSE IF dup.dup
             THEN generate_loop(Tail(objects), reports, keys_already_used, added_count,
                                Append(printed,
                                       Msg("Skipped duplicate", 0,
                                           StripName(Get(data, "first_name")),
                                           StripName(Get(data, "last_name")))))
             ELSE IF ~key.ok
             THEN [reports |-> Append(reports, report), added_count |-> added_count,
                   printed |-> printed, raised |-> TRUE]
             ELSE generate_loop(Tail(objects), Append(reports, report),
                                keys_already_used \cup {key.key}, added_count + 1,
                                Append(printed,
                                       Msg("Added", 0, Get(report, "first_name"),
                                           Get(report, "last_name"))))

\* a save whatever the count
ShouldSave_always(added_count) == added_count >= 0

\* line 518: if added_count > 0
ShouldSave(added_count) == added_count > 0

\* the handler of line 526: the line it prints for str(e)
ErrorLine(err) ==
    CASE err = "unauthorized" -> M("Mistral API key invalid or expired.")
      [] err = "network" -> M("Network error connecting to Mistral AI.")
      [] OTHER -> M("Error calling Mistral AI")

\* _generate_direct_reports_with_ai
GenerateDirectReportsWithAI ==
    /\ Selects("direct_reports", 4)
    /\ \E ev \in Events :
           IF ev = "line"
           THEN \E input \in GenerateInputs :
                    LET calls == input.calls
                        resp == calls[Len(calls)]
                        num_reports == Strip(input.typed)
                        parsed == IntOfStr(num_reports)
                        num == IF num_reports = <<>> \/ ~parsed.ok THEN 3 ELSE parsed.n
                        head == <<Msg("Generating", num, NoneV, NoneV)>>
                        names == existing_names(direct_reports)
                        run == generate_loop(ParseObjects(resp), direct_reports,
                                             names.keys, 0, head)
                    IN  /\ Len(direct_reports) + Len(resp.items) <= MaxRecords
                        /\ next_direct_report_id(direct_reports) + Len(resp.items)
                               <= MaxId + 1
                        /\ Returns("None")
                        /\ ReadCalls(4, <<>>,
                                     IF (1 <= num /\ num <= 10) /\ names.ok
                                     THEN calls ELSE <<>>)
                        /\ UNCHANGED <<menu, exit_status>>
                        /\ IF ~(1 <= num /\ num <= 10)
                           THEN /\ out' = <<M("Please enter a number between 1 and 10.")>>
                                /\ KeepStore
                           ELSE IF resp.kind = "raise" \/ ~names.ok
                           THEN /\ out' = head \o <<ErrorLine(IF resp.kind = "raise"
                                                               THEN resp.key ELSE "other")>>
                                /\ KeepStore
                           ELSE IF run.raised
                           THEN /\ direct_reports' = run.reports
                                /\ out' = run.printed \o <<ErrorLine("other")>>
                                /\ UNCHANGED <<file, disk>>
                           ELSE IF ShouldSave(run.added_count)
                           THEN /\ direct_reports' = run.reports
                                /\ Save(run.reports, run.printed,
                                        <<Msg("Successfully added", run.added_count,
                                              NoneV, NoneV)>>)
                           ELSE /\ out' = run.printed
                                              \o <<M("Could not parse any valid direct reports")>>
                                /\ KeepStore
           ELSE Abort(ev)

---------------------------------------------------------------------------
(* The program *)

StartFiles == {FileOf("absent", <<>>)}

\* a tips file that holds one tip, of the first day
TodaysTips == DumpTips(<<Tip(1, <<"t">>)>>)

InitWith(files, probes) ==
    /\ today = 1
    /\ generated = [d \in 1..MaxDay |-> 0]
    /\ fresh_tip = <<>>
    /\ management_tips = <<>>
    /\ tips_file = TodaysTips
    /\ menu_line = <<>>
    /\ returned = "-"
    /\ adapter_calls = <<>>
    /\ file \in files
    /\ direct_reports = <<>>
    /\ disk \in SaveOutcomes
    /\ MISTRAL_AVAILABLE \in BOOLEAN
    /\ pc = "start"
    /\ menu = "main"
    /\ choice = 0
    /\ raw = <<>>
    /\ input_ev = "none"
    /\ out = <<>>
    /\ exit_status = -1
    /\ probe \in probes

\* no function is checked on its own
NoProbe == [done |-> TRUE, data |-> <<>>, existing |-> <<>>, result |-> FALSE]

Init == InitWith(StartFiles, {NoProbe})

Next ==
    \/ Startup
    \/ PromptAbort
    \/ MainMenu
    \/ SubmenuInvalid
    \/ SubmenuReturn
    \/ SubmenuRedraw
    \/ Pause
    \/ Placeholder
    \/ ViewMilestoneReminders
    \/ EnterDirectReportsMenu
    \/ PrintManagementTipsByDate
    \/ AddDirectReport
    \/ ListDirectReports
    \/ DeleteDirectReport
    \/ PurgeDirectReports
    \/ GenerateDirectReportsWithAI

Spec == Init /\ [][Next]_vars

---------------------------------------------------------------------------
(* The load on its own: main's start on any file of up to MaxFileLen items *)

IdFields ==
    {<<>>, <<KV("id", NoneV)>>, <<KV("id", IntV(0))>>, <<KV("id", IntV(0 - 1))>>,
     <<KV("id", IntV(1))>>, <<KV("id", IntV(2))>>, <<KV("id", StrV(<<"x">>))>>,
     <<KV("id", StrV(<<"2">>))>>}

FileRecords ==
    {f \o <<KV("first_name", StrV(<<"A">>)), KV("last_name", StrV(<<"b">>))>> :
        f \in IdFields}
        \cup {<<KV("firstName", StrV(<<"a">>))>>,
              <<KV("lastName", StrV(<<"b">>)), KV("id", IntV(1))>>}

FileItems == {ObjItem(d) : d \in FileRecords} \cup {OtherItem}

LoadFiles ==
    {FileOf("absent", <<>>), FileOf("invalid", <<>>), FileOf("scalar", <<>>),
     FileOf("undecodable", <<>>)}
        \cup {FileOf("array", items) : items \in SeqsUpTo(FileItems, MaxFileLen)}

InitLoad == InitWith(LoadFiles, {NoProbe})

NextLoad == Startup \/ StartupLoadRaises

SpecLoad == InitLoad /\ [][NextLoad]_vars

---------------------------------------------------------------------------
(* Manual add and delete on a store that starts empty: the direct-reports *)
(* menu after a first start without a file                                 *)

InitAddDelete ==
    /\ today = 1
    /\ generated = [d \in 1..MaxDay |-> 0]
    /\ fresh_tip = <<>>
    /\ management_tips = LoadedTips(TodaysTips, 1)
    /\ tips_file = TodaysTips
    /\ menu_line = <<>>
    /\ returned = "-"
    /\ adapter_calls = <<>>
    /\ direct_reports = <<>>
    /\ file = DumpFile(<<>>)
    /\ disk \in SaveOutcomes
    /\ MISTRAL_AVAILABLE \in BOOLEAN
    /\ pc = "prompt"
    /\ menu = "direct_reports"
    /\ choice = 0
    /\ raw = <<>>
    /\ input_ev = "line"
    /\ out = <<>>
    /\ exit_status = -1
    /\ probe = NoProbe

NextAddDelete ==
    \/ AddDirectReport
    \/ DeleteDirectReport
    \/ Pause

SpecAddDelete == InitAddDelete /\ [][NextAddDelete]_vars

---------------------------------------------------------------------------
(* _is_duplicate_direct_report on its own: a candidate against the key of *)
(* one existing record                                                     *)

DupNames ==
    {<<>>, <<"a">>, <<" ", "A">>, <<"b">>, <<"a", "|", "b">>, <<"b", "|", "b">>}

DupValues == {StrV(s) : s \in DupNames} \cup {NoneV}

NamedDict(first, last) == <<KV("first_name", first), KV("last_name", last)>>

DupProbes ==
    {[done |-> FALSE, data |-> NamedDict(f1, l1), existing |-> NamedDict(f2, l2),
      result |-> FALSE] : f1 \in DupValues, l1 \in DupValues, f2 \in DupValues,
                          l2 \in DupValues}

\* data is checked against {_direct_report_name_key(existing)}
CheckDuplicate ==
    /\ ~probe.done
    /\ probe' = [probe EXCEPT
                    !.done = TRUE,
                    !.result = is_duplicate_direct_report(
                                   probe.data,
                                   existing_names(<<probe.existing>>).keys).dup]
    /\ UNCHANGED <<direct_reports, file, disk, MISTRAL_AVAILABLE, pc, menu, choice,
                   raw, input_ev, out, exit_status, menu_line, returned,
                   adapter_calls, tips_vars>>

InitDup == InitWith({FileOf("absent", <<>>)}, DupProbes)

NextDup == CheckDuplicate

SpecDup == InitDup /\ [][NextDup]_vars

---------------------------------------------------------------------------
(* The tip store over the days: starts of the program on any tips file of *)
(* small tips file, the menus that show the tips, the end of a run and the *)
(* next one                                                                *)

\* a tip of the day before the first, its date written with a time after it
OldTip == DictTip(TRUE, 0, TRUE, <<"u", " ">>)
\* a tip of the first day
FirstDayTip == DictTip(TRUE, 1, FALSE, <<"t">>)

\* the arrays the tips file may hold at the first start
TipArrays ==
    {<<>>, <<OldTip>>, <<FirstDayTip>>, <<OldTip, FirstDayTip>>,
     <<StrTip(<<"T">>)>>, <<OldTip, StrTip(<<"T">>)>>,
     <<OtherTip, DictTip(FALSE, 0, FALSE, <<"t">>), DictTip(TRUE, 1, FALSE, <<" ">>)>>}

TipFiles ==
    {FileOf("absent", <<>>), FileOf("invalid", <<>>), FileOf("scalar", <<>>)}
        \cup {FileOf("array", items) : items \in TipArrays}

InitTips ==
    /\ today = 1
    /\ generated = [d \in 1..MaxDay |-> 0]
    /\ fresh_tip = <<>>
    /\ management_tips = <<>>
    /\ tips_file \in TipFiles
    /\ menu_line = <<>>
    /\ returned = "-"
    /\ adapter_calls = <<>>
    /\ file = DumpFile(<<>>)
    /\ direct_reports = <<>>
    /\ disk \in SaveOutcomes
    /\ MISTRAL_AVAILABLE \in BOOLEAN
    /\ pc = "start"
    /\ menu = "main"
    /\ choice = 0
    /\ raw = <<>>
    /\ input_ev = "none"
    /\ out = <<>>
    /\ exit_status = -1
    /\ probe = NoProbe

\* midnight: date.today() moves on
Tick ==
    /\ today < MaxDay
    /\ today' = today + 1
    /\ UNCHANGED <<direct_reports, file, disk, MISTRAL_AVAILABLE, pc, menu, choice,
                   raw, input_ev, out, exit_status, probe, menu_line, returned,
                   adapter_calls, management_tips, tips_file, generated, fresh_tip>>

\* the program is run again: a new process, the files as the last one left them
Restart ==
    /\ pc = "exited"
    /\ pc' = "start"
    /\ direct_reports' = <<>>
    /\ management_tips' = <<>>
    /\ menu' = "main"
    /\ choice' = 0
    /\ raw' = <<>>
    /\ input_ev' = "none"
    /\ out' = <<>>
    /\ exit_status' = -1
    /\ menu_line' = <<>>
    /\ returned' = "-"
    /\ adapter_calls' = <<>>
    /\ fresh_tip' = <<>>
    /\ UNCHANGED <<file, disk, MISTRAL_AVAILABLE, probe, today, tips_file, generated>>

NextTips ==
    \/ Startup
    \/ MainMenu
    \/ PrintManagementTipsByDate
    \/ Pause
    \/ PromptAbort
    \/ Restart
    \/ Tick

SpecTips == InitTips /\ [][NextTips]_vars

---------------------------------------------------------------------------
(* Properties *)

IdOf(r) == Get(r, "id")

\* the ids of the list are pairwise distinct positive integers
DistinctPositiveIds(reports) ==
    \A i \in DOMAIN reports :
        /\ IdOf(reports[i]).k = "int"
        /\ IdOf(reports[i]).n > 0
        /\ \A j \in DOMAIN reports : j # i => IdOf(reports[j]) # IdOf(reports[i])

\* C1: from an empty store, after any sequence of manual adds and deletes, the
\* ids in the store are pairwise distinct positive integers and nextId() is
\* strictly greater than every one of them.
C1_IdsDistinctNextIdGreater ==
    /\ DistinctPositiveIds(direct_reports)
    /\ \A i \in DOMAIN direct_reports :
           next_direct_report_id(direct_reports) > IdOf(direct_reports[i]).n

\* an add after a delete of the first record: the ids 2 and 3 are in the store
C1_Witness ==
    /\ Len(direct_reports) = 2
    /\ IdOf(direct_reports[1]) = IntV(2)
    /\ IdOf(direct_reports[2]) = IntV(3)
    /\ Printed("Added")

\* the step is a run of _generate_direct_reports_with_ai that returned
GenerateStep ==
    /\ pc = "prompt"
    /\ menu = "direct_reports"
    /\ MISTRAL_AVAILABLE
    /\ choice' = 4
    /\ pc' # "exited"

\* the places in direct_reports' of the records the step appended
Appended == (Len(direct_reports) + 1)..Len(direct_reports')

\* C2: every record bulkGenerate appends is stored with a fresh id: the value
\* nextId() had at the moment of the append, a positive integer different from
\* the id of every record already in the store.
C2_BulkAssignsFreshIds ==
    [][GenerateStep =>
          \A i \in Appended :
              LET before == SubSeq(direct_reports', 1, i - 1)
                  id == IdOf(direct_reports'[i])
              IN  /\ id = IntV(next_direct_report_id(before))
                  /\ id.n > 0
                  /\ \A j \in DOMAIN before : IdOf(before[j]) # id]_vars

\* the lowercase-trimmed names of a normalized record whose names are strings
HasTextNames(r) == Get(r, "first_name").k = "str" /\ Get(r, "last_name").k = "str"

NamePair(r) ==
    <<Lower(Strip(Get(r, "first_name").s)), Lower(Strip(Get(r, "last_name").s))>>

\* C3: after bulkGenerate no record added by the batch has the duplicate key of
\* a record that existed before the batch or of another record of the batch.
C3_BulkKeepsNamesUnique ==
    [][GenerateStep =>
          \A i \in Appended : \A j \in 1..(i - 1) :
              (HasTextNames(direct_reports'[i]) /\ HasTextNames(direct_reports'[j]))
                  => NamePair(direct_reports'[i]) # NamePair(direct_reports'[j])]_vars

\* C4: whenever an operation has changed the in-memory collection and file
\* writes succeed, the file holds the full collection when control is back in
\* the menu loop.
C4_FileFollowsMemory ==
    [][(pc # "start" /\ disk = "ok" /\ direct_reports' # direct_reports)
          => file' = DumpFile(direct_reports')]_vars

\* C5: a candidate is reported as a duplicate of an existing record if and only
\* if the first names are equal after trimming and lowercasing, the last names
\* are, and the names are not empty; two records with empty names do not collide.
C5_DuplicateIffEqualNonEmptyNames ==
    probe.done /\ probe.data # <<>> =>
        LET a == NamePair(normalize_direct_report(probe.data))
            b == NamePair(normalize_direct_report(probe.existing))
        IN  probe.result <=> (a = b /\ ~(a[1] = <<>> /\ a[2] = <<>>))

\* C6: in a submenu, a number in [1, maxOption-1] without a registered action
\* is treated like an invalid input: "Invalid option." and a pause.
C6_UnregisteredIsInvalid ==
    (/\ menu \in Submenus
     /\ pc \in {"prompt", "pause"}
     /\ choice \in 1..(max_option(menu) - 1)
     /\ choice \notin actions(menu))
        => (pc = "pause" /\ Printed("Invalid option."))

\* C7: end-of-file on a pending input ends the process with exit status 0.
C7_EofExitsWithZero ==
    (pc = "exited" /\ input_ev = "eof") => exit_status = 0

\* the number the claim reads in a record's id as the file gives it
FileIdNumber(d) == IF Has(d, "id") THEN IntOf(Get(d, "id")) ELSE [ok |-> FALSE, n |-> 0]

\* present, not null, numeric and positive
ValidFileId(d) == FileIdNumber(d).ok /\ FileIdNumber(d).n > 0

\* the largest valid positive id of the file's records, 0 if there is none
LargestFileId(objs) ==
    LET S == {FileIdNumber(objs[i]).n : i \in {j \in DOMAIN objs : ValidFileId(objs[j])}}
                 \cup {0}
    IN  CHOOSE x \in S : \A y \in S : y <= x

C9_LoadedIdsDistinctPositive ==
    (/\ pc = "prompt"
     /\ file.kind = "array"
     /\ \A i \in DOMAIN file.items : file.items[i].obj)
        => DistinctPositiveIds(direct_reports)

\* the step is a run of _delete_direct_report in which the operator typed the
\* number k at its prompt
DeleteStep(k) ==
    /\ pc = "prompt"
    /\ menu = "direct_reports"
    /\ choice' = 3
    /\ pc' # "exited"
    /\ direct_reports # <<>>
    /\ raw' # <<>>
    /\ IntOfStr(raw').ok
    /\ IntOfStr(raw').n = k

\* the list without its i-th element
Without(reports, i) ==
    [j \in 1..(Len(reports) - 1) |-> IF j < i THEN reports[j] ELSE reports[j + 1]]

LastCall == adapter_calls'[Len(adapter_calls')]

\* the response holds no JSON, or JSON without an array that holds an object
NoRecordArray(resp) ==
    \/ resp.kind \in {"garbage", "scalar"}
    \/ /\ resp.kind \in {"list", "dict"}
       /\ \A i \in DOMAIN resp.items : ~resp.items[i].obj

---------------------------------------------------------------------------
(* The daily tip *)

\* a step in which the tip load called _generate_management_tip_with_ai
GenerateDailyStep == pc = "start" /\ returned' # "-"

\* what the load read, and the file as the load left it for the generation
TipsBefore == LoadedTips(tips_file, today)
TipsFileBefore ==
    IF tips_file.kind = "absent" THEN SavedTips(disk, <<>>, tips_file) ELSE tips_file

\* the answer is a text that is blank or that some entry of tips already has,
\* case and spacing aside
BlankOrKnown(answer, tips) ==
    /\ answer.kind = "text"
    /\ \/ Strip(answer.text) = <<>>
       \/ \E i \in DOMAIN tips :
              normalize_tip_for_comparison(tips[i].text)
                  = normalize_tip_for_comparison(answer.text)

\* C12: generateDaily makes at most 5 adapter requests; every request before
\* the last met a blank or known text; it succeeds exactly when the last
\* request met a text that is neither, and then the store is the old one with
\* one entry appended, dated today with that text, and has been saved; after 5
\* blank or known texts it reports failure and the store and the tips file are
\* as before.
C12_GenerateDailyAttempts ==
    [][GenerateDailyStep =>
          LET calls == adapter_calls'
              n == Len(calls)
          IN  /\ 1 <= n /\ n <= 5
              /\ \A i \in 1..(n - 1) : BlankOrKnown(calls[i], TipsBefore)
              /\ returned' = "True" <=>
                     calls[n].kind = "text" /\ ~BlankOrKnown(calls[n], TipsBefore)
              /\ returned' = "True" =>
                     /\ management_tips'
                            = Append(TipsBefore, Tip(today', Strip(calls[n].text)))
                     /\ tips_file' = SavedTips(disk, management_tips', TipsFileBefore)
              /\ returned' = "False" =>
                     /\ management_tips' = TipsBefore
                     /\ tips_file' = TipsFileBefore
              /\ BlankOrKnown(calls[n], TipsBefore) => n = 5]_vars

\* the fifth request met a new text: the entry is in the store and in the file
C12_Witness ==
    /\ pc = "prompt"
    /\ returned = "True"
    /\ Len(adapter_calls) = 5
    /\ Len(management_tips) >= 2
    /\ tips_file = DumpTips(management_tips)

C14_LatestAndRefresh ==
    /\ fresh_tip # <<>> =>
           /\ get_latest_management_tip(management_tips) = fresh_tip[1].text
           /\ today = fresh_tip[1].date => ~need_new_tip(management_tips, today)
    /\ management_tips = <<>> =>
           /\ get_latest_management_tip(management_tips) = NoTipYet
           /\ need_new_tip(management_tips, today)

\* the tip generated at start, after older entries, is the latest one while
\* the main menu is used later that day
C14_Witness ==
    /\ fresh_tip # <<>>
    /\ today = fresh_tip[1].date
    /\ Len(management_tips) >= 2
    /\ pc = "pause"
    /\ Printed("tip")

\* C15: the tip store is append-only: the load sets it from the file, and from
\* then on every step of the program leaves the entries it holds as they are,
\* in date, text and position; the one change is one new entry at the end.
C15_TipsAppendOnly ==
    [][/\ pc = "start" /\ pc' # "start" =>
              \/ management_tips' = TipsBefore
              \/ /\ Len(management_tips') = Len(TipsBefore) + 1
                 /\ SubSeq(management_tips', 1, Len(TipsBefore)) = TipsBefore
       /\ pc # "start" /\ pc' # "start" =>
              \/ management_tips' = management_tips
              \/ /\ Len(management_tips') = Len(management_tips) + 1
                 /\ SubSeq(management_tips', 1, Len(management_tips))
                        = management_tips]_vars

\* the load read an entry of an earlier day and the generation put a second
\* one after it
C15_Witness ==
    /\ pc = "prompt"
    /\ returned = "True"
    /\ Len(management_tips) = 2
    /\ management_tips[1].date < today
    /\ management_tips[2] = fresh_tip[1]

\* C16: adapter failures are never retried: when a request of generateDaily or
\* of bulkGenerate raises, the invocation makes no request after it, leaves
\* the stores as they were and fails; a request that is not the first of its
\* invocation follows a blank or known tip text.
C16_FailuresNotRetried ==
    [][GenerateStep \/ GenerateDailyStep =>
       \A i \in DOMAIN adapter_calls' :
           /\ adapter_calls'[i].kind = "raise" =>
                  /\ i = Len(adapter_calls')
                  /\ direct_reports' = direct_reports
                  /\ file' = file
                  /\ pc = "start" =>
                         management_tips' = TipsBefore /\ returned' = "False"
           /\ i > 1 => /\ pc = "start"
                       /\ BlankOrKnown(adapter_calls'[i - 1], TipsBefore)]_vars

---------------------------------------------------------------------------
(* The submenu loop, in a program whose import of mistralai failed: option *)
(* 4 of the direct-reports menu is not registered                          *)

InitNotInstalled == Init /\ ~MISTRAL_AVAILABLE

NextNotInstalled ==
    \/ Startup
    \/ PromptAbort
    \/ MainMenu
    \/ SubmenuInvalid
    \/ SubmenuReturn
    \/ SubmenuRedraw
    \/ Pause
    \/ Placeholder
    \/ ViewMilestoneReminders
    \/ EnterDirectReportsMenu
    \/ PrintManagementTipsByDate
    \/ AddDirectReport
    \/ ListDirectReports
    \/ DeleteDirectReport
    \/ PurgeDirectReports

SpecNotInstalled == InitNotInstalled /\ [][NextNotInstalled]_vars

\* a step of _run_submenu that read a line at the menu's prompt
SubmenuLineStep ==
    /\ pc = "prompt"
    /\ menu \in Submenus
    /\ menu_line' # <<>>

\* the number the line read at the menu's prompt stands for
LineRead == IntOfStr(Strip(menu_line'[1]))

StoresUnchanged ==
    /\ direct_reports' = direct_reports
    /\ file' = file
    /\ management_tips' = management_tips
    /\ tips_file' = tips_file

\* C17: the submenu loop returns to its caller when, and only when, the line
\* read is the number maxOption; then no action has run and there is no pause;
\* on every other line the loop goes on: it draws its menu and prompts again,
\* after the pause or the nested menu the iteration has, unless the input of
\* the action ends and ends the process.
C17_ReturnsIffMaxOption ==
    [][SubmenuLineStep =>
          LET back == LineRead.ok /\ LineRead.n = max_option(menu)
          IN  /\ (menu' = Caller(menu) /\ pc' = "prompt") <=> back
              /\ back => /\ out' = <<>>
                         /\ raw' = <<>>
                         /\ StoresUnchanged
                         /\ exit_status' = -1
              /\ ~back => \/ menu' = menu /\ pc' \in {"prompt", "pause"}
                          \/ menu = "people" /\ menu' = "direct_reports"
                                 /\ pc' = "prompt"
                          \/ pc' = "exited" /\ input_ev' \in Aborts]_vars

\* the direct-reports menu has returned to the loop of the people menu, with
\* a record in the store
C17_Witness ==
    /\ pc = "prompt"
    /\ menu = "people"
    /\ menu_line = <<DigitStr(6)>>
    /\ out = <<>>
    /\ direct_reports # <<>>

\* C18: after a registered action has been invoked and has returned, the pause
\* is skipped if and only if the action returned True; after any other value
\* the loop is in its pause before it draws the menu again.
C18_PauseSkippedIffTrue ==
    [][SubmenuLineStep /\ returned' # "-" =>
          /\ pc' = "prompt" <=> returned' = "True"
          /\ returned' # "True" => pc' = "pause"]_vars

\* "Delete Direct Report" found the store empty and returned True: the menu
\* is drawn again with no pause
C18_Witness ==
    /\ pc = "prompt"
    /\ menu = "direct_reports"
    /\ choice = 3
    /\ returned = "True"
    /\ direct_reports = <<>>

\* C19: a line that is no number, or a number outside 1..maxOption, invokes
\* no action and changes neither store; the loop prints "Invalid option." and
\* is in its pause, after which it prompts again.
C19_InvalidInput ==
    [][/\ SubmenuLineStep
              /\ (~LineRead.ok \/ LineRead.n < 1 \/ LineRead.n > max_option(menu))
          => /\ returned' = "-"
             /\ StoresUnchanged
             /\ out' = <<M("Invalid option.")>>
             /\ pc' = "pause"
             /\ menu' = menu
       /\ pc = "pause" /\ Printed("Invalid option.") /\ pc' # "exited"
          => pc' = "prompt" /\ menu' = menu /\ StoresUnchanged]_vars

\* 7 typed at the direct-reports menu, whose options end at 6, with a record
\* in the store
C19_Witness ==
    /\ pc = "pause"
    /\ menu = "direct_reports"
    /\ menu_line = <<DigitStr(7)>>
    /\ Printed("Invalid option.")
    /\ direct_reports # <<>>

---------------------------------------------------------------------------
(* A file that is no JSON array *)

\* C20: load() of a file that is no valid JSON, or whose top level is no
\* array, yields an empty collection and does not write the file: the program
\* goes on to its menu with the file as it was.
C20_BadFileLoadsEmpty ==
    [][pc = "start" /\ file.kind \in {"invalid", "undecodable", "scalar"} =>
          /\ direct_reports' = <<>>
          /\ file' = file
          /\ pc' = "prompt"]_vars

---------------------------------------------------------------------------
(* A save that fails *)

\* the step printed the line m
PrintsNext(m) == \E i \in DOMAIN out' : out'[i].m = m

\* a step of the direct-reports menu in which _save_direct_reports failed
FailedSaveStep ==
    /\ pc = "prompt"
    /\ menu = "direct_reports"
    /\ PrintsNext("Could not save direct reports")

\* C21: when the write inside save() fails during add, deleteById, purgeAll
\* or bulkGenerate, the failure is reported, the process goes on in the menu
\* loop, the collection keeps the mutation, and the file keeps its previous
\* content.
C21_FailedSaveKeepsFile ==
    [][FailedSaveStep =>
          /\ pc' \in {"prompt", "pause"}
          /\ exit_status' = -1
          /\ direct_reports' # direct_reports
          /\ file' = file]_vars

---------------------------------------------------------------------------
(* Round trip *)

\* what load() reads from the file a successful save() of the store writes
SavedThenLoaded == LoadedReports(SavedFile("ok", direct_reports, file))

\* the fields the round trip is about
RoundTripKeys ==
    {"id", "first_name", "last_name"}
        \cup {DIRECT_REPORT_OPTIONAL_KEYS[i] : i \in DOMAIN DIRECT_REPORT_OPTIONAL_KEYS}

\* C22: for every collection the store holds after any sequence of add,
\* deleteById, purgeAll and bulkGenerate, save() followed by load() yields the
\* same ids, names and optional-field values, record for record.
C22_SaveLoadRoundTrip ==
    pc \in {"prompt", "pause"} =>
        /\ Len(SavedThenLoaded) = Len(direct_reports)
        /\ \A i \in DOMAIN direct_reports :
               \A key \in RoundTripKeys :
                   Get(SavedThenLoaded[i], key) = Get(direct_reports[i], key)

---------------------------------------------------------------------------
(* Names *)

\* the value is a str of at least one character
NonEmptyStr(v) == v.k = "str" /\ v.s # <<>>

\* C23: every record that add or bulkGenerate put in the store has a non-empty
\* first_name and a non-empty last_name.
C23_NamesNonEmpty ==
    \A i \in DOMAIN direct_reports :
        /\ NonEmptyStr(Get(direct_reports[i], "first_name"))
        /\ NonEmptyStr(Get(direct_reports[i], "last_name"))

---------------------------------------------------------------------------
(* _wrap_text on its own: probe holds the arguments and, once done, the    *)
(* lines returned                                                          *)

WrapChars == {"a", "b", " ", "\n"}

WrapProbes ==
    {[done |-> FALSE, text |-> s, width |-> w, lines |-> <<>>] :
        s \in SeqsUpTo(WrapChars, MaxTextLen), w \in 1..MaxWidth}

WrapText ==
    /\ ~probe.done
    /\ probe' = [probe EXCEPT !.done = TRUE,
                              !.lines = wrap_text(probe.text, probe.width)]
    /\ UNCHANGED <<direct_reports, file, disk, MISTRAL_AVAILABLE, pc, menu, choice,
                   raw, input_ev, out, exit_status, menu_line, returned,
                   adapter_calls, tips_vars>>

InitWrap ==
    /\ InitWith({FileOf("absent", <<>>)}, WrapProbes)
    /\ disk = "ok"
    /\ ~MISTRAL_AVAILABLE

NextWrap == WrapText

SpecWrap == InitWrap /\ [][NextWrap]_vars

\* C24: for every text and every width >= 1 wrap returns at least one line and
\* no line is longer than width; a text that is empty or only whitespace gives
\* exactly one empty line.
C24_WrapFits ==
    probe.done =>
        /\ Len(probe.lines) >= 1
        /\ \A i \in DOMAIN probe.lines : Len(probe.lines[i]) <= probe.width
        /\ (\A i \in DOMAIN probe.text : probe.text[i] \in {" ", "\n"})
               => probe.lines = << <<>> >>

\* a word longer than the width was cut, and the text took several lines
C24_Witness ==
    /\ probe.done
    /\ probe.width = 2
    /\ probe.text = <<"a", "b", "a", " ", "b">>
    /\ Len(probe.lines) = 2

\* "\n".join(lines)
RECURSIVE JoinLines(_)
JoinLines(lines) ==
    IF lines = <<>> THEN <<>>
    ELSE IF Len(lines) = 1 THEN lines[1]
    ELSE lines[1] \o <<"\n">> \o JoinLines(Tail(lines))

\* the words of a sequence of paragraphs or lines, in order
RECURSIVE WordsOf(_)
WordsOf(lines) ==
    IF lines = <<>> THEN <<>> ELSE Split(lines[1]) \o WordsOf(Tail(lines))

\* C25: for every text and every width >= 1 the lines wrap returns hold the
\* original words, complete and in their order, and wrapping the lines again
\* at the same width returns the same lines.
C25_WrapKeepsWords ==
    probe.done =>
        /\ WordsOf(probe.lines) = WordsOf(SplitLines(probe.text))
        /\ wrap_text(JoinLines(probe.lines), probe.width) = probe.lines

---------------------------------------------------------------------------
(* _menu_box on its own: probe holds the arguments and, once done, the lines *)
(* of the box                                                                *)

\* a word that no box can hold on one line
LongWord == [i \in 1..(MaxBoxWidth + 2) |-> "a"]

\* a text of several words and two paragraphs
SomeWords == <<"a", "b", " ", "a", "b", " ", "a", "\n", "b">>

BoxTitles == {<<"a", "b">>, LongWord}

BoxOpts ==
    {Opt("str", <<"a">>, TRUE, FALSE),
     Opt("pair", LongWord, FALSE, FALSE),
     Opt("triple", <<"a", "b">>, TRUE, TRUE)}

BoxMids ==
    {Mid("str", <<>>, <<>>),
     Mid("str", <<>>, SomeWords),
     Mid("pair", <<"T">>, <<"a", " ", "b">>),
     Mid("pair", LongWord, <<" ">> \o SomeWords)}

BoxProbes ==
    {[done |-> FALSE, title |-> ti, options |-> o, width |-> w, middle |-> m,
      middle_position |-> mp, lines |-> <<>>] :
        ti \in BoxTitles, o \in SeqsUpTo(BoxOpts, MaxBoxItems),
        w \in MinBoxWidth..MaxBoxWidth, m \in SeqsUpTo(BoxMids, MaxBoxItems),
        mp \in {"top", "bottom"}}

MenuBox ==
    /\ ~probe.done
    /\ probe' = [probe EXCEPT !.done = TRUE,
                              !.lines = menu_box(probe.title, probe.options,
                                                 probe.width, probe.middle,
                                                 probe.middle_position)]
    /\ UNCHANGED <<direct_reports, file, disk, MISTRAL_AVAILABLE, pc, menu, choice,
                   raw, input_ev, out, exit_status, menu_line, returned,
                   adapter_calls, tips_vars>>

InitBox ==
    /\ InitWith({FileOf("absent", <<>>)}, BoxProbes)
    /\ disk = "ok"
    /\ ~MISTRAL_AVAILABLE

NextBox == MenuBox

SpecBox == InitBox /\ [][NextBox]_vars

\* the characters of a line that take a column: everything but the style codes
Visible(line) == SelectSeq(line, LAMBDA c : c \notin StyleCodes)

\* C26: every line of a rendered box has the same visible length, the interior
\* width plus 2, for every title, option list, middle list of plain paragraphs
\* and (label, body) pairs of any length, and either middle position.
C26_BoxLinesEqual ==
    probe.done =>
        \A i \in DOMAIN probe.lines : Len(Visible(probe.lines[i])) = probe.width + 2

\* a box with its middle at the bottom, whose (label, body) item has a label
\* longer than the box and a body that wraps
C26_Witness ==
    /\ probe.done
    /\ probe.middle_position = "bottom"
    /\ probe.width = MinBoxWidth
    /\ probe.middle = <<Mid("pair", LongWord, <<" ">> \o SomeWords)>>
    /\ Len(probe.options) = MaxBoxItems
    /\ Len(probe.lines) > 7 + MaxBoxItems

---------------------------------------------------------------------------
(* The count of a bulk generation *)

\* the count the step's invocation asked the adapter for: the number of the
\* "Generating" line, which line 436 prints once the count was accepted
RequestedCount == out'[1].n

\* C27: bulkGenerate with a count n from 1 to 10 appends at most n records,
\* whatever number of candidates the response holds; with a count outside
\* 1..10 it makes no adapter request and leaves the store and the file as
\* they are.
C27_AtMostCount ==
    [][GenerateStep =>
          /\ out'[1].m = "Generating"
                 => Len(direct_reports') <= Len(direct_reports) + RequestedCount
          /\ out'[1].m = "Please enter a number between 1 and 10."
                 => /\ adapter_calls' = <<>>
                    /\ direct_reports' = direct_reports
                    /\ file' = file]_vars

---------------------------------------------------------------------------
(* The pause after an action of the direct-reports menu *)

\* an action of the direct-reports menu ran to its end and changed the store
StoreChangingAction ==
    /\ pc = "prompt"
    /\ menu = "direct_reports"
    /\ returned' # "-"
    /\ direct_reports' # direct_reports

\* C28: whenever an action of the direct-reports menu (add, delete, bulk
\* generation, purge) changed the store and printed its outcome, the loop
\* pauses for the operator before it clears the screen again.
C28_PauseAfterChange ==
    [][StoreChangingAction => pc' = "pause"]_vars

---------------------------------------------------------------------------
(* The purge and its confirmation *)

\* a run of _purge_direct_reports that returned
PurgeStep ==
    /\ pc = "prompt"
    /\ menu = "direct_reports"
    /\ choice' = 5
    /\ pc' # "exited"

\* the typed lines that read "yes" once trimmed, whatever their case
YesLines == {<<"y", "e", "s">>, <<" ", "Y", "E", "S">>}

\* C30: the purge empties the store and writes the file again only when the
\* operator's confirmation is "yes" (trimmed, in any case); on every other
\* confirmation, and when the store is already empty, the store and the file
\* are as they were.
C30_PurgeOnlyOnYes ==
    [][PurgeStep =>
          IF direct_reports # <<>> /\ raw' \in YesLines
          THEN /\ direct_reports' = <<>>
               /\ file' = SavedFile(disk, <<>>, file)
               /\ disk = "ok" => file' = DumpFile(<<>>)
          ELSE /\ direct_reports' = direct_reports
               /\ file' = file]_vars

\* a store of one record was purged on the line " YES" and the file holds
\* the empty array
C30_Witness ==
    /\ pc = "prompt"
    /\ menu = "direct_reports"
    /\ choice = 5
    /\ raw = <<" ", "Y", "E", "S">>
    /\ Printed("Purged")
    /\ direct_reports = <<>>
    /\ file = DumpFile(<<>>)

---------------------------------------------------------------------------
(* _generate_management_tip_with_ai on its own: probe holds the store and   *)
(* what the requests meet and, once done, the list of the prompt and the    *)
(* result                                                                   *)

\* the text of the i-th tip of a store: "t", "t02", "t03", ...
NumberedText(i) ==
    IF i = 1 THEN <<"t">>
    ELSE <<"t", DigitChars[(i \div 10) + 1], DigitChars[(i % 10) + 1]>>

\* stores of pairwise different tips, and one store that holds a tip twice
TipStores ==
    {[i \in 1..n |-> Tip(1, NumberedText(i))] : n \in 0..MaxTips}
        \cup {<<Tip(1, <<"t">>), Tip(1, <<"T", " ", " ">>)>>}

DailyProbes ==
    {[done |-> FALSE, tips |-> s, answers |-> a, avoid_all |-> <<>>,
      run |-> [ok |-> FALSE, raised |-> FALSE, tips |-> <<>>, calls |-> <<>>]] :
        s \in TipStores, a \in TipAnswers}

GenerateDaily ==
    /\ ~probe.done
    /\ probe' = [probe EXCEPT !.done = TRUE,
                              !.avoid_all = avoid_all(probe.tips),
                              !.run = generate_management_tip_with_ai(
                                          probe.tips, probe.answers, 2)]
    /\ UNCHANGED <<direct_reports, file, disk, MISTRAL_AVAILABLE, pc, menu, choice,
                   raw, input_ev, out, exit_status, menu_line, returned,
                   adapter_calls, tips_vars>>

InitDaily ==
    /\ InitWith({FileOf("absent", <<>>)}, DailyProbes)
    /\ disk = "ok"
    /\ MISTRAL_AVAILABLE

NextDaily == GenerateDaily

SpecDaily == InitDaily /\ [][NextDaily]_vars

\* no two entries of the store have the same text once lowercased and with
\* their whitespace collapsed
NoEqualTips(tips) ==
    \A i \in DOMAIN tips : \A j \in DOMAIN tips :
        i # j => normalize_tip_for_comparison(tips[i].text)
                     # normalize_tip_for_comparison(tips[j].text)

\* C29: when the tip store holds no two entries of equal normalized text as
\* the daily generation starts, it holds none when the generation ends,
\* whatever the adapter answers and however long the store is (also longer
\* than the 20 entries the prompt lists).
C29_NoDuplicateTips ==
    probe.done /\ NoEqualTips(probe.tips) => NoEqualTips(probe.run.tips)

\* the store is longer than the list of the prompt; the first answer repeated
\* the oldest tip, which the prompt did not list, and a later answer was
\* appended
C29_Witness ==
    /\ probe.done
    /\ Len(probe.tips) > avoid_window
    /\ Len(probe.avoid_all) = avoid_window
    /\ \A i \in DOMAIN probe.avoid_all : probe.avoid_all[i] # probe.tips[1].text
    /\ probe.answers[1] = TipText(<<"T", " ">>)
    /\ probe.run.ok
    /\ Len(probe.run.calls) > 1
    /\ Len(probe.run.tips) = Len(probe.tips) + 1


====
